---- MODULE Spec2Model ----
(***************************************************************************)
(* OverlapUtil (src/libsrc/OverlapUtil.cpp): frames of a segmentation are  *)
(* grouped into logical positions, segments are mapped to the positions,   *)
(* an overlap matrix is built from pairwise frame comparisons and the      *)
(* segments are grouped into non-overlapping groups.  Every result is      *)
(* memoized in a member of the object.                                     *)
(*                                                                         *)
(* Conventions.  Frame numbers are 0-based as in the code; the per-frame   *)
(* tables of the segmentation object are TLA+ sequences, so frame f is at  *)
(* index f + 1.  Segment numbers are 1-based as in the code; the code's    *)
(* matrix[s - 1][t - 1] is matrix[s][t] here.  Coordinates and the slice   *)
(* thickness are integers in one common unit (hundredths of a millimetre), *)
(* so "diff < sliceThickness * 0.01" is the exact comparison               *)
(* diff * 100 < sliceThickness.                                            *)
(***************************************************************************)
EXTENDS Integers, Sequences, FiniteSets, TLC

VARIABLES
    m_seg,                    \* the segmentation object (the input, borrowed)
    m_imageOrientation,       \* OFVector<Float64>, empty or six values
    m_framePositions,         \* vector of FramePositionAndNumber
    m_framesForSegment,       \* vector (per segment) of frame numbers
    m_logicalFramePositions,  \* vector of vectors of frame numbers
    m_segmentsByPosition,     \* vector of sets of SegNumAndFrameNum
    m_segmentOverlapMatrix,   \* vector of vectors of Sint8 (-1, 0, 1)
    m_nonOverlappingSegments, \* vector of vectors of segment numbers
    last,                     \* the last call: operation, condition returned,
                              \* what it wrote to the caller's output, work done
    segmentCalls              \* calls of a getter that goes through
                              \* getSegmentsByPosition() since construction or
                              \* clear(): 0, 1, or 2 for two or more

vars == << m_seg, m_imageOrientation, m_framePositions, m_framesForSegment,
           m_logicalFramePositions, m_segmentsByPosition, m_segmentOverlapMatrix,
           m_nonOverlappingSegments, last, segmentCalls >>

caches == << m_imageOrientation, m_framePositions, m_framesForSegment,
             m_logicalFramePositions, m_segmentsByPosition, m_segmentOverlapMatrix,
             m_nonOverlappingSegments >>

(***************************************************************************)
(* Bounds of the model.                                                    *)
(***************************************************************************)
MaxFrames == 3      \* frames of a generated segmentation object
MaxSegs == 3        \* declared segments where the pixel masks vary
MaxRefSegs == 2     \* declared segments where the segment references vary
MaxPixels == 3      \* pixels of an unpacked frame compared on its own
MaxPixelValue == 2  \* largest value of a pixel of such a frame

(***************************************************************************)
(* Program constants.                                                      *)
(***************************************************************************)
ToleranceDivisor == 100   \* sliceThickness * 0.01
BitsPerByte == 8          \* rows * cols % 8

(***************************************************************************)
(* OFCondition values.                                                     *)
(***************************************************************************)
EC_Normal == "EC_Normal"
EC_TagNotFound == "EC_TagNotFound"
EC_InvalidValue == "EC_InvalidValue"
EC_IllegalCall == "EC_IllegalCall"
EC_IllegalParameter == "EC_IllegalParameter"
SG_EC_FramesNotParallel == "SG_EC_FramesNotParallel"

Good(cond) == cond = EC_Normal
Bad(cond) == cond # EC_Normal

(***************************************************************************)
(* Arithmetic helpers.                                                     *)
(***************************************************************************)
Abs(x) == IF x < 0 THEN -x ELSE x

Min(S) == CHOOSE x \in S : \A y \in S : x <= y

RECURSIVE BitAnd(_, _)
\* a & b on unsigned bytes
BitAnd(a, b) ==
    IF a = 0 \/ b = 0 THEN 0
    ELSE (a % 2) * (b % 2) + 2 * BitAnd(a \div 2, b \div 2)

\* bit k (0 = least significant) of byte b
Bit(b, k) == (b \div (2 ^ k)) % 2

(***************************************************************************)
(* Orientation and position grouping.                                      *)
(***************************************************************************)
ZeroOrientation == << 0, 0, 0, 0, 0, 0 >>   \* m_imageOrientation.resize(6)

\* EnsureFramesAreParallel reading the orientation of frame 0 also when the
\* group is per-frame
EnsureFramesAreParallel_PerFrameAccepted ==
    LET pop == m_seg.planeOrientation
    IN  IF pop.found
        THEN [cond |-> EC_Normal, orientation |-> pop.imageOrientationPatient]
        ELSE [cond |-> EC_TagNotFound, orientation |-> ZeroOrientation]

\* ensureFramesAreParallel(): the condition and the new m_imageOrientation
EnsureFramesAreParallel ==
    LET pop == m_seg.planeOrientation
    IN  IF pop.found
        THEN IF ~pop.perFrame
             THEN [cond |-> EC_Normal, orientation |-> pop.imageOrientationPatient]
             ELSE [cond |-> SG_EC_FramesNotParallel, orientation |-> ZeroOrientation]
        ELSE [cond |-> EC_TagNotFound, orientation |-> ZeroOrientation]

\* the frame at which collectPhysicalFramePositions() stops: a frame without
\* a position ends the loop with an error
StopsAtMissingPosition(i) == ~m_seg.planePosition[i + 1].found

\* collectPhysicalFramePositions(): the condition and the new m_framePositions
CollectPhysicalFramePositions ==
    LET numFrames == m_seg.numberOfFrames
        missing == { i \in 0 .. numFrames - 1 : StopsAtMissingPosition(i) }
        upto == IF missing = {} THEN numFrames ELSE Min(missing)
    IN  [cond |-> IF missing = {} THEN EC_Normal ELSE EC_TagNotFound,
         framePositions |->
            [k \in 1 .. upto |->
                [m_position |-> m_seg.planePosition[k].imagePositionPatient,
                 m_frameNumber |-> k - 1]]]

\* identifyChangingCoordinate(): 0, 1 or 2, or 3 when no coordinate wins
IdentifyChangingCoordinate(imageOrientation) ==
    LET o == imageOrientation
        c0 == Abs(o[2] * o[6] - o[3] * o[5])
        c1 == Abs(o[3] * o[4] - o[1] * o[6])
        c2 == Abs(o[1] * o[5] - o[2] * o[4])
    IN  IF c0 > c1 /\ c0 > c2 THEN 0
        ELSE IF c1 > c0 /\ c1 > c2 THEN 1
        ELSE IF c2 > c0 /\ c2 > c1 THEN 2
        ELSE 3

\* ComparePositions(c)(a, b): a is ordered before b
ComparePositions(c, a, b) == a.m_position[c + 1] < b.m_position[c + 1]

\* std::sort(m_framePositions.begin(), m_framePositions.end(), c): every
\* arrangement std::sort may leave; the order of frames that compare equal is
\* unspecified (std::sort is not stable)
SortOutcomes(framePositions, c) ==
    LET n == Len(framePositions)
        perms == { p \in [1 .. n -> 1 .. n] : \A i, j \in 1 .. n : i # j => p[i] # p[j] }
        sorted(p) == \A j \in 2 .. n :
                        ~ComparePositions(c, framePositions[p[j]], framePositions[p[j - 1]])
    IN  { [j \in 1 .. n |-> framePositions[p[j]]] : p \in { q \in perms : sorted(q) } }

\* CloseToPrevious with a distance equal to the tolerance counted as close
CloseToPrevious_Inclusive(diff, sliceThickness) ==
    diff * ToleranceDivisor <= sliceThickness

\* "1% inaccuracy for slice thickness will be considered as same logical
\* position": diff < sliceThickness * 0.01
CloseToPrevious(diff, sliceThickness) == diff * ToleranceDivisor < sliceThickness

RECURSIVE AssignToBuckets_Overwrite(_, _, _, _, _)
\* AssignToBuckets putting a frame that is not close to the previous one in
\* place of the last bucket instead of pushing a new bucket
AssignToBuckets_Overwrite(sorted, c, sliceThickness, j, buckets) ==
    IF j > Len(sorted) THEN buckets
    ELSE LET diff == Abs(sorted[j].m_position[c + 1] - sorted[j - 1].m_position[c + 1])
         IN  IF CloseToPrevious(diff, sliceThickness)
             THEN AssignToBuckets_Overwrite(sorted, c, sliceThickness, j + 1,
                     [buckets EXCEPT ![Len(buckets)] = Append(@, sorted[j].m_frameNumber)])
             ELSE AssignToBuckets_Overwrite(sorted, c, sliceThickness, j + 1,
                     [buckets EXCEPT ![Len(buckets)] = << sorted[j].m_frameNumber >>])

RECURSIVE AssignToBuckets(_, _, _, _, _)
\* the loop over j = 1 .. size - 1 of groupFramesByLogicalPosition() (j is the
\* 1-based index here), extending the vector of buckets
AssignToBuckets(sorted, c, sliceThickness, j, buckets) ==
    IF j > Len(sorted) THEN buckets
    ELSE LET diff == Abs(sorted[j].m_position[c + 1] - sorted[j - 1].m_position[c + 1])
         IN  IF CloseToPrevious(diff, sliceThickness)
             THEN AssignToBuckets(sorted, c, sliceThickness, j + 1,
                     [buckets EXCEPT ![Len(buckets)] = Append(@, sorted[j].m_frameNumber)])
             ELSE AssignToBuckets(sorted, c, sliceThickness, j + 1,
                     Append(buckets, << sorted[j].m_frameNumber >>))

\* groupFramesByLogicalPosition() on the collected positions: the outcomes
\* [cond, framePositions, logicalFramePositions] it can have
GroupFramesByLogicalPosition(framePositions, imageOrientation, logical) ==
    LET pm == m_seg.pixelMeasures
        c == IdentifyChangingCoordinate(imageOrientation)
        failed(cond) == { [cond |-> cond, framePositions |-> framePositions,
                           logicalFramePositions |-> logical] }
    IN  IF ~pm.found THEN failed(EC_TagNotFound)
        ELSE IF ~pm.hasSliceThickness THEN failed(EC_TagNotFound)
        ELSE IF c >= 3 THEN failed(EC_InvalidValue)
        ELSE { [cond |-> EC_Normal,
                framePositions |-> sorted,
                logicalFramePositions |->
                    AssignToBuckets(sorted, c, pm.sliceThickness, 2,
                                    Append(logical, << sorted[1].m_frameNumber >>))]
               : sorted \in SortOutcomes(framePositions, c) }

\* groupFramesByPosition(): the outcomes it can have in the current state; each
\* gives the condition, the members it leaves and the work it did
GroupFramesByPosition ==
    IF m_framePositions # << >>
    THEN \* already computed
         { [cond |-> EC_Normal, imageOrientation |-> m_imageOrientation,
            framePositions |-> m_framePositions,
            logicalFramePositions |-> m_logicalFramePositions, work |-> {}] }
    ELSE LET par == EnsureFramesAreParallel
             col == CollectPhysicalFramePositions
         IN  IF Bad(par.cond)
             THEN { [cond |-> par.cond, imageOrientation |-> par.orientation,
                     framePositions |-> m_framePositions,
                     logicalFramePositions |-> m_logicalFramePositions, work |-> {}] }
             ELSE IF Bad(col.cond)
             THEN { [cond |-> col.cond, imageOrientation |-> par.orientation,
                     framePositions |-> << >>,
                     logicalFramePositions |-> << >>, work |-> {"collect"}] }
             ELSE { [cond |-> g.cond, imageOrientation |-> par.orientation,
                     framePositions |-> IF Bad(g.cond) THEN << >> ELSE g.framePositions,
                     logicalFramePositions |->
                         IF Bad(g.cond) THEN << >> ELSE g.logicalFramePositions,
                     work |-> {"collect"}]
                    : g \in GroupFramesByLogicalPosition(col.framePositions,
                                par.orientation, m_logicalFramePositions) }

(***************************************************************************)
(* Segments by logical position.                                           *)
(***************************************************************************)
\* the branches of getSegmentsByPosition() on the Referenced Segment Number
\* of a frame: EC_Normal inserts the pair, anything else ends the loops
ReferencedSegmentCond(segFG, numSegments) ==
    IF segFG.good /\ segFG.segNum > 0 /\ segFG.segNum <= numSegments THEN EC_Normal
    ELSE IF segFG.segNum = 0 THEN EC_InvalidValue
    ELSE IF segFG.segNum > numSegments THEN EC_InvalidValue
    ELSE EC_TagNotFound

SegNumAndFrameNum(segNum, frameNumber) ==
    [m_segmentNumber |-> segNum, m_frameNumber |-> frameNumber]

\* NoSegmentationGroup passing over a frame that references segment 0 as well
NoSegmentationGroup_OrZero(segFG) == ~segFG.found \/ segFG.segNum = 0

\* if (segFG) is false: the frame has no Segmentation FG and is passed over
NoSegmentationGroup(segFG) == ~segFG.found

RECURSIVE InsertSegments(_, _, _, _)
\* the loops over l and f of getSegmentsByPosition() from position l, frame f
\* (1-based indices): the condition and m_segmentsByPosition as the loops leave it
InsertSegments(logical, l, f, segmentsByPosition) ==
    IF l > Len(logical)
    THEN [cond |-> EC_Normal, segmentsByPosition |-> segmentsByPosition]
    ELSE IF f > Len(logical[l])
    THEN InsertSegments(logical, l + 1, 1, segmentsByPosition)
    ELSE LET frameNumber == logical[l][f]
             segFG == m_seg.segmentation[frameNumber + 1]
             cond == ReferencedSegmentCond(segFG, m_seg.numberOfSegments)
         IN  IF NoSegmentationGroup(segFG)
             THEN InsertSegments(logical, l, f + 1, segmentsByPosition)
             ELSE IF Good(cond)
             THEN InsertSegments(logical, l, f + 1,
                     [segmentsByPosition EXCEPT
                         ![l] = @ \cup { SegNumAndFrameNum(segFG.segNum, frameNumber) }])
             ELSE [cond |-> cond, segmentsByPosition |-> segmentsByPosition]

\* what getSegmentsByPosition() leaves in m_segmentsByPosition when its loops
\* ended with an error
AfterFailedInsert(segmentsByPosition) == segmentsByPosition

\* getSegmentsByPosition(): the outcomes it can have in the current state
SegmentsByPosition ==
    IF m_segmentsByPosition # << >>
    THEN \* already computed
         { [cond |-> EC_Normal, imageOrientation |-> m_imageOrientation,
            framePositions |-> m_framePositions,
            logicalFramePositions |-> m_logicalFramePositions,
            segmentsByPosition |-> m_segmentsByPosition,
            written |-> TRUE, work |-> {}] }
    ELSE { IF Bad(g.cond)
           THEN [cond |-> g.cond, imageOrientation |-> g.imageOrientation,
                 framePositions |-> g.framePositions,
                 logicalFramePositions |-> g.logicalFramePositions,
                 segmentsByPosition |-> m_segmentsByPosition,
                 written |-> FALSE, work |-> g.work]
           ELSE \* m_logicalFramePositions is not empty here: groupFramesByPosition()
                \* succeeded on at least one frame, so the nested getFramesByPosition()
                \* of the code is not entered
                LET logical == g.logicalFramePositions
                    ins == InsertSegments(logical, 1, 1, [l \in 1 .. Len(logical) |-> {}])
                IN  [cond |-> ins.cond, imageOrientation |-> g.imageOrientation,
                     framePositions |-> g.framePositions,
                     logicalFramePositions |-> logical,
                     segmentsByPosition |->
                         IF Good(ins.cond) THEN ins.segmentsByPosition
                         ELSE AfterFailedInsert(ins.segmentsByPosition),
                     written |-> FALSE,
                     work |-> g.work \cup {"lookup"}]
           : g \in GroupFramesByPosition }

(***************************************************************************)
(* Frame comparison.                                                       *)
(***************************************************************************)
NoFrame == [present |-> FALSE, pixData |-> << >>]   \* a NULL DcmIODTypes::Frame*

\* Frame::length
FrameLength(frame) == Len(frame.pixData)

\* BytesOverlap comparing the bytes for equality, as the unpacked mode does
BytesOverlap_Equal(b1, b2) == b1 # 0 /\ b1 = b2

\* the test of one byte pair in checkFramesOverlapBinary()
BytesOverlap(b1, b2) == BitAnd(b1, b2) # 0

\* checkFramesOverlapBinary(): the condition and the value left in overlap
CheckFramesOverlapBinary(f1_data, f2_data) ==
    IF ~f1_data.present \/ ~f2_data.present
    THEN [cond |-> EC_IllegalCall, overlap |-> FALSE]
    ELSE IF FrameLength(f1_data) # FrameLength(f2_data)
    THEN [cond |-> EC_IllegalCall, overlap |-> FALSE]
    ELSE [cond |-> EC_Normal,
          overlap |-> \E n \in 1 .. FrameLength(f1_data) :
                         BytesOverlap(f1_data.pixData[n], f2_data.pixData[n])]

\* DcmSegUtils::unpackBinaryFrame(): one byte (0 or 1) per pixel, pixel n taken
\* from bit n % 8 of byte n / 8; NULL for a NULL frame
UnpackBinaryFrame(frame, rows, cols) ==
    IF ~frame.present THEN NoFrame
    ELSE [present |-> TRUE,
          pixData |-> [n \in 1 .. rows * cols |->
                          Bit(frame.pixData[((n - 1) \div BitsPerByte) + 1],
                              (n - 1) % BitsPerByte)]]

\* the test of one pixel pair in checkFramesOverlapUnpacked()
PixelsOverlap(p1, p2) == p1 # 0 /\ p1 = p2

\* the loop over n of checkFramesOverlapUnpacked() on two unpacked buffers of
\* one length: the value left in overlap
ComparePixels(f1_pixData, f2_pixData) ==
    \E n \in 1 .. Len(f1_pixData) : PixelsOverlap(f1_pixData[n], f2_pixData[n])

\* checkFramesOverlapUnpacked(): the condition and the value left in overlap
CheckFramesOverlapUnpacked(f1_data, f2_data, rows, cols) ==
    LET f1_unpacked == UnpackBinaryFrame(f1_data, rows, cols)
        f2_unpacked == UnpackBinaryFrame(f2_data, rows, cols)
    IN  IF ~f1_unpacked.present \/ ~f2_unpacked.present
        THEN [cond |-> EC_IllegalCall, overlap |-> FALSE]
        ELSE IF FrameLength(f1_unpacked) # FrameLength(f2_unpacked)
        THEN [cond |-> EC_IllegalCall, overlap |-> FALSE]
        ELSE [cond |-> EC_Normal,
              overlap |-> ComparePixels(f1_unpacked.pixData, f2_unpacked.pixData)]

\* rows * cols % 8 == 0: the frames are compared byte by byte
BytePacked(rows, cols) == (rows * cols) % BitsPerByte = 0

\* checkFramesOverlap(): the condition and the value left in overlap
CheckFramesOverlap(f1, f2) ==
    IF f1 = f2
    THEN [cond |-> EC_Normal, overlap |-> FALSE]
    ELSE LET f1_data == m_seg.frames[f1 + 1]
             f2_data == m_seg.frames[f2 + 1]
         IN  IF ~BytePacked(m_seg.rows, m_seg.cols)
             THEN CheckFramesOverlapUnpacked(f1_data, f2_data, m_seg.rows, m_seg.cols)
             ELSE CheckFramesOverlapBinary(f1_data, f2_data)

(***************************************************************************)
(* Overlap matrix.                                                         *)
(***************************************************************************)
\* SegNumAndFrameNum::operator<: the order of a std::set<SegNumAndFrameNum>
SegNumAndFrameNumLess(a, b) ==
    \/ a.m_segmentNumber < b.m_segmentNumber
    \/ a.m_segmentNumber = b.m_segmentNumber /\ a.m_frameNumber < b.m_frameNumber

RECURSIVE InSetOrder(_)
\* the elements of a std::set<SegNumAndFrameNum> as begin() .. end() visits them
InSetOrder(S) ==
    IF S = {} THEN << >>
    ELSE LET first == CHOOSE x \in S : \A y \in S \ {x} : SegNumAndFrameNumLess(x, y)
         IN  << first >> \o InSetOrder(S \ {first})

\* the matrix after resize(numSegments, -1) and the loop setting the diagonal
InitialMatrix(numSegments) ==
    [i \in 1 .. numSegments |-> [j \in 1 .. numSegments |-> IF i = j THEN 0 ELSE -1]]

\* SameSegment skipping the comparison of a frame with itself only
SameSegment_SameFrame(it, it2) == it.m_frameNumber = it2.m_frameNumber

\* "Skip self-comparison": the pair is compared only when this is false
SameSegment(it, it2) == it.m_segmentNumber = it2.m_segmentNumber

\* the value entered into the matrix for a comparison: overlap ? 1 : 0; the
\* condition checkFramesOverlap() returned is not looked at
MatrixEntry(checked) == IF checked.overlap THEN 1 ELSE 0

\* AlreadyOverlapping never skipping a pair
AlreadyOverlapping_Never(matrix, it, it2) == FALSE

\* existing_result == 1: an overlap of the two segments was found before and
\* the pair of frames is not compared
AlreadyOverlapping(matrix, it, it2) ==
    matrix[it.m_segmentNumber][it2.m_segmentNumber] = 1

RECURSIVE InnerLoop(_, _, _, _)
\* the loop over it2 of buildOverlapMatrix() for it = entries[a], from
\* it2 = entries[b]; acc holds the matrix, index1, index2 and the log of the
\* calls of checkFramesOverlap()
InnerLoop(entries, a, b, acc) ==
    IF b > Len(entries) THEN acc
    ELSE LET it == entries[a]
             it2 == entries[b]
             counted == [acc EXCEPT !.index2 = @ + 1]
         IN  IF counted.index2 <= counted.index1
             THEN InnerLoop(entries, a, b + 1, counted)
             ELSE IF SameSegment(it, it2)
             THEN InnerLoop(entries, a, b + 1, counted)
             ELSE IF AlreadyOverlapping(counted.matrix, it, it2)
             THEN InnerLoop(entries, a, b + 1, counted)
             ELSE LET checked == CheckFramesOverlap(it.m_frameNumber, it2.m_frameNumber)
                      entry == MatrixEntry(checked)
                  IN  InnerLoop(entries, a, b + 1,
                         [counted EXCEPT
                            !.matrix[it.m_segmentNumber][it2.m_segmentNumber] = entry,
                            !.matrix[it2.m_segmentNumber][it.m_segmentNumber] = entry,
                            !.log = Append(@, [it |-> it, it2 |-> it2,
                                               cond |-> checked.cond,
                                               overlap |-> checked.overlap])])

RECURSIVE OuterLoop(_, _, _)
\* the loop over it of buildOverlapMatrix() at one position, from it = entries[a]
OuterLoop(entries, a, acc) ==
    IF a > Len(entries) THEN acc
    ELSE OuterLoop(entries, a + 1,
                   InnerLoop(entries, a, 1, [acc EXCEPT !.index1 = @ + 1]))

RECURSIVE PositionLoop(_, _, _)
\* the loop over the logical positions of buildOverlapMatrix(), from position i
PositionLoop(segmentsByPosition, i, acc) ==
    IF i > Len(segmentsByPosition) THEN acc
    ELSE PositionLoop(segmentsByPosition, i + 1,
                      OuterLoop(InSetOrder(segmentsByPosition[i]), 1, acc))

\* SetRemainingToNoOverlap without the loops
SetRemainingToNoOverlap_Skipped(matrix) == matrix

\* the last loops of buildOverlapMatrix(): entries still -1 become 0
SetRemainingToNoOverlap(matrix) ==
    [i \in DOMAIN matrix |-> [j \in DOMAIN matrix[i] |->
        IF matrix[i][j] = -1 THEN 0 ELSE matrix[i][j]]]

\* buildOverlapMatrix(): the condition, the new m_segmentOverlapMatrix and the
\* calls of checkFramesOverlap() it made, in order
BuildOverlapMatrix(segmentsByPosition) ==
    LET acc == PositionLoop(segmentsByPosition, 1,
                   [matrix |-> InitialMatrix(m_seg.numberOfSegments),
                    index1 |-> 0, index2 |-> 0, log |-> << >>])
    IN  [cond |-> EC_Normal,
         matrix |-> SetRemainingToNoOverlap(acc.matrix),
         log |-> acc.log]

\* getOverlapMatrix(): the outcomes it can have in the current state
OverlapMatrix ==
    IF m_segmentOverlapMatrix # << >>
    THEN \* already computed
         { [cond |-> EC_Normal, imageOrientation |-> m_imageOrientation,
            framePositions |-> m_framePositions,
            logicalFramePositions |-> m_logicalFramePositions,
            segmentsByPosition |-> m_segmentsByPosition,
            segmentOverlapMatrix |-> m_segmentOverlapMatrix, work |-> {}] }
    ELSE { IF Bad(s.cond)
           THEN [cond |-> s.cond, imageOrientation |-> s.imageOrientation,
                 framePositions |-> s.framePositions,
                 logicalFramePositions |-> s.logicalFramePositions,
                 segmentsByPosition |-> s.segmentsByPosition,
                 segmentOverlapMatrix |-> m_segmentOverlapMatrix, work |-> s.work]
           ELSE LET built == BuildOverlapMatrix(s.segmentsByPosition)
                IN  [cond |-> built.cond, imageOrientation |-> s.imageOrientation,
                     framePositions |-> s.framePositions,
                     logicalFramePositions |-> s.logicalFramePositions,
                     segmentsByPosition |-> s.segmentsByPosition,
                     segmentOverlapMatrix |-> built.matrix,
                     work |-> s.work \cup
                              (IF built.log # << >> THEN {"compare"} ELSE {})]
           : s \in SegmentsByPosition }

(***************************************************************************)
(* Non-overlapping segment groups.                                         *)
(***************************************************************************)
\* OverlapsGroup looking at the first segment of the group only
OverlapsGroup_FirstMemberOnly(matrix, segment, group, overlaps) ==
    overlaps \/ (group # << >> /\ matrix[segment][group[1]] = 1)

\* "Check if the current segment overlaps with the segment in the current
\* group": the loop over one group, starting from the flag as it is
OverlapsGroup(matrix, segment, group, overlaps) ==
    overlaps \/ \E k \in DOMAIN group : matrix[segment][group[k]] = 1

RECURSIVE GroupLoop(_, _, _, _, _)
\* the loop over the groups j for one segment (i + 1 in the code), from group
\* j with the flag overlaps: the groups and the flag as the loop leaves them
GroupLoop(matrix, segment, groups, j, overlaps) ==
    IF j > Len(groups) THEN [groups |-> groups, overlaps |-> overlaps]
    ELSE LET found == OverlapsGroup(matrix, segment, groups[j], overlaps)
         IN  IF ~found
             THEN [groups |-> [groups EXCEPT ![j] = Append(@, segment)],
                   overlaps |-> found]
             ELSE GroupLoop(matrix, segment, groups, j + 1, found)

RECURSIVE SegmentLoop(_, _, _)
\* the loop over the segments of getNonOverlappingSegments(), from segment
SegmentLoop(matrix, segment, groups) ==
    IF segment > Len(matrix) THEN groups
    ELSE LET scanned == GroupLoop(matrix, segment, groups, 1, FALSE)
         IN  SegmentLoop(matrix, segment + 1,
                IF scanned.overlaps
                THEN Append(scanned.groups, << segment >>)
                ELSE scanned.groups)

\* the grouping of getNonOverlappingSegments(), starting from one empty group
\* pushed onto m_nonOverlappingSegments
GroupSegments(matrix, groups) == SegmentLoop(matrix, 1, Append(groups, << >>))

(***************************************************************************)
(* Frames of a segment.  An access to an element past the end of a vector  *)
(* is undefined behaviour: the process may end there, or go on with the    *)
(* write lost or with whatever the read found.                             *)
(***************************************************************************)
Crashed == "crashed"    \* the process ended on the access

\* what the read of an element past the end of m_framesForSegment may yield
GarbageFrames == { << >>, << 0 >> }

\* the first test of getFramesForSegment(): "Segment number is out of range"
SegmentNumberRejected(segmentNumber) ==
    segmentNumber = 0 \/ segmentNumber > m_seg.numberOfSegments + 1

RECURSIVE FramesForSegmentLoop(_, _, _)
\* the loop over the frames of getFramesForSegment() from frame f (1-based
\* index here): the outcomes, each with the condition, the table as it is left
\* and the work done
FramesForSegmentLoop(f, framesForSegment, work) ==
    IF f > m_seg.numberOfFrames
    THEN { [cond |-> EC_Normal, framesForSegment |-> framesForSegment, work |-> work] }
    ELSE LET segFG == m_seg.segmentation[f]
         IN  IF ~segFG.found
             THEN FramesForSegmentLoop(f + 1, framesForSegment, work)
             ELSE IF segFG.good /\ segFG.segNum > 0
             THEN IF segFG.segNum <= Len(framesForSegment)
                  THEN FramesForSegmentLoop(f + 1,
                          [framesForSegment EXCEPT ![segFG.segNum] = Append(@, f - 1)],
                          work)
                  ELSE \* m_framesForSegment[segNum - 1] is past the end
                       { [cond |-> Crashed, framesForSegment |-> framesForSegment,
                          work |-> work \cup {"outOfRange"}] }
                       \cup FramesForSegmentLoop(f + 1, framesForSegment,
                                                 work \cup {"outOfRange"})
             ELSE IF segFG.segNum = 0
             THEN { [cond |-> EC_InvalidValue, framesForSegment |-> framesForSegment,
                     work |-> work] }
             ELSE { [cond |-> EC_TagNotFound, framesForSegment |-> framesForSegment,
                     work |-> work] }

\* getFramesForSegment(segmentNumber, frames): the outcomes it can have in the
\* current state (the number of frames is far below 2^32)
FramesForSegment(segmentNumber) ==
    IF SegmentNumberRejected(segmentNumber)
    THEN { [cond |-> EC_IllegalParameter, framesForSegment |-> m_framesForSegment,
            written |-> FALSE, frames |-> << >>, work |-> {}] }
    ELSE LET filled ==
                 IF m_framesForSegment = << >>
                 THEN FramesForSegmentLoop(1,
                         [s \in 1 .. m_seg.numberOfSegments |-> << >>], {"lookup"})
                 ELSE { [cond |-> EC_Normal, framesForSegment |-> m_framesForSegment,
                         work |-> {}] }
         IN  UNION {
                 IF Bad(t.cond)
                 THEN { [cond |-> t.cond, framesForSegment |-> t.framesForSegment,
                         written |-> FALSE, frames |-> << >>, work |-> t.work] }
                 ELSE IF segmentNumber <= Len(t.framesForSegment)
                 THEN { [cond |-> EC_Normal, framesForSegment |-> t.framesForSegment,
                         written |-> TRUE, frames |-> t.framesForSegment[segmentNumber],
                         work |-> t.work] }
                 ELSE \* m_framesForSegment[segmentNumber - 1] is past the end
                      { [cond |-> Crashed, framesForSegment |-> t.framesForSegment,
                         written |-> FALSE, frames |-> << >>,
                         work |-> t.work \cup {"outOfRange"}] }
                      \cup { [cond |-> EC_Normal, framesForSegment |-> t.framesForSegment,
                              written |-> TRUE, frames |-> garbage,
                              work |-> t.work \cup {"outOfRange"}]
                             : garbage \in GarbageFrames }
                 : t \in filled }

(***************************************************************************)
(* Segmentation objects: the inputs of the model.                          *)
(***************************************************************************)
Axial == << 1, 0, 0, 0, 1, 0 >>      \* normal along z: coordinate 2
Sagittal == << 0, 1, 0, 0, 0, 1 >>   \* normal along x: coordinate 0
Oblique == << 1, 0, 0, 0, 1, 1 >>    \* normal (0, -1, 1): no coordinate wins

SharedOrientation(iop) ==
    [found |-> TRUE, perFrame |-> FALSE, imageOrientationPatient |-> iop]
PerFrameOrientation(iop) ==
    [found |-> TRUE, perFrame |-> TRUE, imageOrientationPatient |-> iop]
NoOrientation ==
    [found |-> FALSE, perFrame |-> FALSE, imageOrientationPatient |-> ZeroOrientation]

SliceThickness(t) == [found |-> TRUE, hasSliceThickness |-> TRUE, sliceThickness |-> t]
NoSliceThickness == [found |-> TRUE, hasSliceThickness |-> FALSE, sliceThickness |-> 0]
NoPixelMeasures == [found |-> FALSE, hasSliceThickness |-> FALSE, sliceThickness |-> 0]

Position(x, y, z) == [found |-> TRUE, imagePositionPatient |-> << x, y, z >>]
NoPosition == [found |-> FALSE, imagePositionPatient |-> << 0, 0, 0 >>]

\* the Segmentation FG of a frame: found or not; getReferencedSegmentNumber()
\* good or not (it leaves 0 in segNum when it fails); the number
SegRef(n) == [found |-> TRUE, good |-> TRUE, segNum |-> n]
UnreadableSegRef == [found |-> TRUE, good |-> FALSE, segNum |-> 0]
NoSegmentationFG == [found |-> FALSE, good |-> FALSE, segNum |-> 0]

Frame(bytes) == [present |-> TRUE, pixData |-> bytes]

SegObject(orientation, measures, positions, numSegments, refs, frames, rows, cols) ==
    [numberOfFrames |-> Len(positions),
     numberOfSegments |-> numSegments,
     planeOrientation |-> orientation,
     pixelMeasures |-> measures,
     planePosition |-> positions,
     segmentation |-> refs,
     frames |-> frames,
     rows |-> rows,
     cols |-> cols]

\* a slice thickness whose tolerance exceeds the distance of any two frames
\* placed one unit apart in the same slot
WideThickness == ToleranceDivisor * (MaxFrames + 1)

\* frame k (1-based) of n frames: one unit per frame, the last frame either
\* with the others (far = 0) or on a slice of its own (far = 1)
SlotPositions(n, far) ==
    [k \in 1 .. n |-> Position(0, 0, k + (IF k = n /\ k > 1 THEN far * 1000 ELSE 0))]

MaskA == << 12, 0 >>    \* 0b1100 in byte 0
MaskB == << 8, 12 >>    \* 0b1000 in byte 0, 0b1100 in byte 1
MaskC == << 0, 12 >>    \* 0b1100 in byte 1
Masks == { MaskA, MaskB, MaskC }

\* frames whose positions, orientation and slice thickness vary; one segment.
\* Where the geometry makes the grouping fail, the positions only differ in
\* being there or not
PositionObjects ==
    LET grouped ==
            { << SharedOrientation(Axial), SliceThickness(100) >>,
              << SharedOrientation(Axial), SliceThickness(200) >>,
              << SharedOrientation(Sagittal), SliceThickness(100) >> }
        failing ==
            { << SharedOrientation(Oblique), SliceThickness(100) >>,
              << PerFrameOrientation(Axial), SliceThickness(100) >>,
              << NoOrientation, SliceThickness(100) >>,
              << SharedOrientation(Axial), NoSliceThickness >>,
              << SharedOrientation(Axial), NoPixelMeasures >> }
        places == { NoPosition, Position(0, 0, 0), Position(0, 0, 1), Position(2, 0, 2) }
        object(g, pos) ==
            SegObject(g[1], g[2], pos, 1, [k \in DOMAIN pos |-> SegRef(1)],
                      [k \in DOMAIN pos |-> Frame(MaskA)], 4, 4)
    IN  { object(g, pos)
          : g \in grouped, pos \in UNION { [1 .. n -> places] : n \in 1 .. MaxFrames } }
        \cup
        { object(g, pos)
          : g \in failing,
            pos \in UNION { [1 .. n -> { NoPosition, Position(0, 0, 0) }]
                            : n \in 1 .. MaxFrames } }

\* frames whose segment references vary, valid or not: no group, unreadable,
\* 0, the first and the last segment, and the number after the last; the last
\* of several frames is on a slice of its own
ReferenceObjects ==
    UNION { UNION {
        { SegObject(SharedOrientation(Axial), SliceThickness(WideThickness),
                    SlotPositions(n, 1), numSegments, refs,
                    [k \in 1 .. n |-> Frame(MaskA)], 4, 4)
          : refs \in [1 .. n -> { NoSegmentationFG, UnreadableSegRef }
                                \cup { SegRef(r) : r \in { 0, 1, numSegments,
                                                           numSegments + 1 } }] }
        : n \in 1 .. MaxFrames } : numSegments \in { 0, MaxRefSegs } }

\* frames with valid references whose masks vary: every segment has a frame
\* and the segment numbers ascend over the frames
OverlapObjects ==
    UNION { UNION {
        { SegObject(SharedOrientation(Axial), SliceThickness(WideThickness),
                    SlotPositions(n, far), numSegments,
                    [k \in 1 .. n |-> SegRef(segs[k])],
                    [k \in 1 .. n |-> Frame(masks[k])], 4, 4)
          : far \in (IF n > 1 THEN {0, 1} ELSE {0}),
            segs \in { q \in [1 .. n -> 1 .. numSegments] :
                         /\ \A k \in 2 .. n : q[k - 1] <= q[k]
                         /\ \A r \in 1 .. numSegments : \E k \in 1 .. n : q[k] = r },
            masks \in [1 .. n -> Masks] }
        : n \in 1 .. MaxFrames } : numSegments \in 1 .. MaxSegs }

\* frames at one position whose pixel data may be missing or of another length
FrameDataObjects ==
    UNION {
        { SegObject(SharedOrientation(Axial), SliceThickness(WideThickness),
                    SlotPositions(n, 0), 2,
                    [k \in 1 .. n |-> SegRef(IF k = 1 THEN 1 ELSE 2)], data, 4, 4)
          : data \in [1 .. n -> { NoFrame, Frame(MaskA), Frame(<< 12 >>) }] }
        : n \in 2 .. MaxFrames }

\* frames of 3 x 4 pixels: rows * cols is no multiple of 8
UnpackedObjects ==
    UNION {
        { SegObject(SharedOrientation(Axial), SliceThickness(WideThickness),
                    SlotPositions(n, 0), 2,
                    [k \in 1 .. n |-> SegRef(IF k = 1 THEN 1 ELSE 2)], data, 3, 4)
          : data \in [1 .. n -> { NoFrame } \cup { Frame(m) : m \in Masks }] }
        : n \in 2 .. MaxFrames }

\* four frames at 0, 0.01, 5 and 5.01 along z (in hundredths: 0, 1, 500, 501)
FourFrames(sliceThickness) ==
    SegObject(SharedOrientation(Axial), SliceThickness(sliceThickness),
              << Position(0, 0, 0), Position(0, 0, 1),
                 Position(0, 0, 500), Position(0, 0, 501) >>,
              1, [k \in 1 .. 4 |-> SegRef(1)], [k \in 1 .. 4 |-> Frame(MaskA)], 4, 4)

\* two frames at one position, one per segment, of 2 x 4 pixels (one byte)
TwoSegments(byte1, byte2) ==
    SegObject(SharedOrientation(Axial), SliceThickness(100),
              << Position(0, 0, 0), Position(0, 0, 0) >>,
              2, << SegRef(1), SegRef(2) >>,
              << Frame(<< byte1 >>), Frame(<< byte2 >>) >>, 2, 4)

Scenarios ==
    { FourFrames(100), FourFrames(200), TwoSegments(12, 3), TwoSegments(12, 8) }

SegObjects ==
    PositionObjects \cup ReferenceObjects \cup OverlapObjects
        \cup FrameDataObjects \cup UnpackedObjects \cup Scenarios

(***************************************************************************)
(* The operations of OverlapUtil.                                          *)
(***************************************************************************)
Getters == { "getFramesByPosition", "getSegmentsByPosition", "getOverlapMatrix",
             "getNonOverlappingSegments" }

\* the getters that go through getSegmentsByPosition()
SegmentGetters == Getters \ { "getFramesByPosition" }

Called(op, cond, written, result, work) ==
    [op |-> op, cond |-> cond, written |-> written, result |-> result, work |-> work]

CountCall(op) ==
    IF op \in SegmentGetters /\ segmentCalls < 2 THEN segmentCalls + 1 ELSE segmentCalls

\* the process has not ended on an access outside a vector
Running == last.cond # Crashed

\* OverlapUtil::OverlapUtil() followed by setSegmentationObject(seg)
Init ==
    /\ m_seg \in SegObjects
    /\ m_imageOrientation = << >>
    /\ m_framePositions = << >>
    /\ m_framesForSegment = << >>
    /\ m_logicalFramePositions = << >>
    /\ m_segmentsByPosition = << >>
    /\ m_segmentOverlapMatrix = << >>
    /\ m_nonOverlappingSegments = << >>
    /\ segmentCalls = 0
    /\ last = Called("none", EC_Normal, FALSE, << >>, {})

\* Clear leaving the overlap matrix in place
Clear_KeepsOverlapMatrix ==
    /\ Running
    /\ m_imageOrientation' = << >>
    /\ m_framePositions' = << >>
    /\ m_framesForSegment' = << >>
    /\ m_logicalFramePositions' = << >>
    /\ m_segmentsByPosition' = << >>
    /\ m_nonOverlappingSegments' = << >>
    /\ segmentCalls' = 0
    /\ last' = Called("clear", EC_Normal, FALSE, << >>, {})
    /\ UNCHANGED << m_seg, m_segmentOverlapMatrix >>

\* clear()
Clear ==
    /\ Running
    /\ m_imageOrientation' = << >>
    /\ m_framePositions' = << >>
    /\ m_framesForSegment' = << >>
    /\ m_logicalFramePositions' = << >>
    /\ m_segmentsByPosition' = << >>
    /\ m_segmentOverlapMatrix' = << >>
    /\ m_nonOverlappingSegments' = << >>
    /\ segmentCalls' = 0
    /\ last' = Called("clear", EC_Normal, FALSE, << >>, {})
    /\ UNCHANGED m_seg

\* setSegmentationObject(seg): m_seg = seg; clear()
SetSegmentationObject ==
    \E seg \in Scenarios :
        /\ Running
        /\ m_seg' = seg
        /\ m_imageOrientation' = << >>
        /\ m_framePositions' = << >>
        /\ m_framesForSegment' = << >>
        /\ m_logicalFramePositions' = << >>
        /\ m_segmentsByPosition' = << >>
        /\ m_segmentOverlapMatrix' = << >>
        /\ m_nonOverlappingSegments' = << >>
        /\ segmentCalls' = 0
        /\ last' = Called("setSegmentationObject", EC_Normal, FALSE, << >>, {})

\* getFramesByPosition(result)
GetFramesByPosition ==
    \E g \in (IF m_logicalFramePositions = << >>
              THEN GroupFramesByPosition
              ELSE { [cond |-> EC_Normal, imageOrientation |-> m_imageOrientation,
                      framePositions |-> m_framePositions,
                      logicalFramePositions |-> m_logicalFramePositions,
                      work |-> {}] }) :
        /\ Running
        /\ m_imageOrientation' = g.imageOrientation
        /\ m_framePositions' = g.framePositions
        /\ m_logicalFramePositions' = g.logicalFramePositions
        /\ last' = Called("getFramesByPosition", g.cond, Good(g.cond),
                          IF Good(g.cond) THEN g.logicalFramePositions ELSE << >>,
                          g.work)
        /\ segmentCalls' = CountCall("getFramesByPosition")
        /\ UNCHANGED << m_seg, m_framesForSegment, m_segmentsByPosition,
                        m_segmentOverlapMatrix, m_nonOverlappingSegments >>

\* getSegmentsByPosition(result): result is assigned only on the "already
\* computed" path
GetSegmentsByPosition ==
    \E s \in SegmentsByPosition :
        /\ Running
        /\ m_imageOrientation' = s.imageOrientation
        /\ m_framePositions' = s.framePositions
        /\ m_logicalFramePositions' = s.logicalFramePositions
        /\ m_segmentsByPosition' = s.segmentsByPosition
        /\ last' = Called("getSegmentsByPosition", s.cond, s.written,
                          IF s.written THEN s.segmentsByPosition ELSE << >>, s.work)
        /\ segmentCalls' = CountCall("getSegmentsByPosition")
        /\ UNCHANGED << m_seg, m_framesForSegment, m_segmentOverlapMatrix,
                        m_nonOverlappingSegments >>

\* getOverlapMatrix(matrix)
GetOverlapMatrix ==
    \E o \in OverlapMatrix :
        /\ Running
        /\ m_imageOrientation' = o.imageOrientation
        /\ m_framePositions' = o.framePositions
        /\ m_logicalFramePositions' = o.logicalFramePositions
        /\ m_segmentsByPosition' = o.segmentsByPosition
        /\ m_segmentOverlapMatrix' = o.segmentOverlapMatrix
        /\ last' = Called("getOverlapMatrix", o.cond, Good(o.cond),
                          IF Good(o.cond) THEN o.segmentOverlapMatrix ELSE << >>, o.work)
        /\ segmentCalls' = CountCall("getOverlapMatrix")
        /\ UNCHANGED << m_seg, m_framesForSegment, m_nonOverlappingSegments >>

\* getNonOverlappingSegments(segmentGroups)
GetNonOverlappingSegments ==
    IF m_nonOverlappingSegments # << >>
    THEN \* already computed
         /\ Running
         /\ last' = Called("getNonOverlappingSegments", EC_Normal, TRUE,
                           m_nonOverlappingSegments, {})
         /\ segmentCalls' = CountCall("getNonOverlappingSegments")
         /\ UNCHANGED << m_seg, caches >>
    ELSE \E o \in OverlapMatrix :
            LET groups == IF Good(o.cond)
                          THEN GroupSegments(o.segmentOverlapMatrix, m_nonOverlappingSegments)
                          ELSE m_nonOverlappingSegments
            IN  /\ Running
                /\ m_imageOrientation' = o.imageOrientation
                /\ m_framePositions' = o.framePositions
                /\ m_logicalFramePositions' = o.logicalFramePositions
                /\ m_segmentsByPosition' = o.segmentsByPosition
                /\ m_segmentOverlapMatrix' = o.segmentOverlapMatrix
                /\ m_nonOverlappingSegments' = groups
                /\ last' = Called("getNonOverlappingSegments", o.cond, Good(o.cond),
                                  IF Good(o.cond) THEN groups ELSE << >>, o.work)
                /\ segmentCalls' = CountCall("getNonOverlappingSegments")
                /\ UNCHANGED << m_seg, m_framesForSegment >>

\* the segment numbers getFramesForSegment() is called with: 0, the first
\* segment, and the two numbers after the last segment
SegmentNumbers == { 0, 1, m_seg.numberOfSegments + 1, m_seg.numberOfSegments + 2 }

\* getFramesForSegment(segmentNumber, frames)
GetFramesForSegment ==
    \E segmentNumber \in SegmentNumbers :
        \E o \in FramesForSegment(segmentNumber) :
            /\ Running
            /\ m_framesForSegment' = o.framesForSegment
            /\ last' = Called("getFramesForSegment", o.cond, o.written,
                              [segmentNumber |-> segmentNumber, frames |-> o.frames],
                              o.work)
            /\ segmentCalls' = CountCall("getFramesForSegment")
            /\ UNCHANGED << m_seg, m_imageOrientation, m_framePositions,
                            m_logicalFramePositions, m_segmentsByPosition,
                            m_segmentOverlapMatrix, m_nonOverlappingSegments >>

Next ==
    \/ Clear
    \/ SetSegmentationObject
    \/ GetFramesByPosition
    \/ GetSegmentsByPosition
    \/ GetOverlapMatrix
    \/ GetNonOverlappingSegments
    \/ GetFramesForSegment

Spec == Init /\ [][Next]_vars

(***************************************************************************)
(* The pixel comparison of checkFramesOverlapUnpacked() on its own: two     *)
(* unpacked buffers of one length, one byte per pixel, are drawn and the    *)
(* loop is applied to them.                                                 *)
(***************************************************************************)
PixelBuffers == [1 .. MaxPixels -> 0 .. MaxPixelValue]

InitUnpacked ==
    /\ m_seg = TwoSegments(12, 8)
    /\ m_imageOrientation = << >>
    /\ m_framePositions = << >>
    /\ m_framesForSegment = << >>
    /\ m_logicalFramePositions = << >>
    /\ m_segmentsByPosition = << >>
    /\ m_segmentOverlapMatrix = << >>
    /\ m_nonOverlappingSegments = << >>
    /\ segmentCalls = 0
    /\ \E f1_pixData \in PixelBuffers, f2_pixData \in PixelBuffers :
          last = Called("unpackBinaryFrame", EC_Normal, TRUE,
                        [f1_unpacked |-> f1_pixData, f2_unpacked |-> f2_pixData,
                         overlap |-> FALSE], {})

\* the loop of checkFramesOverlapUnpacked() on the two buffers
CompareUnpackedFrames ==
    /\ Running
    /\ last.op = "unpackBinaryFrame"
    /\ last' = Called("checkFramesOverlapUnpacked", EC_Normal, TRUE,
                      [last.result EXCEPT
                          !.overlap = ComparePixels(last.result.f1_unpacked,
                                                    last.result.f2_unpacked)],
                      {"compare"})
    /\ UNCHANGED << m_seg, caches, segmentCalls >>

NextUnpacked == CompareUnpackedFrames

SpecUnpacked == InitUnpacked /\ [][NextUnpacked]_vars

(***************************************************************************)
(* Properties.                                                             *)
(***************************************************************************)
\* the last call was op and returned EC_Normal
Succeeded(op) == last.op = op /\ Good(last.cond)

\* the places (group, index) at which segment s stands in the groups
PlacesOf(groups, s) ==
    { p \in UNION { { << g, k >> : k \in DOMAIN groups[g] } : g \in DOMAIN groups } :
        groups[p[1]][p[2]] = s }

\* C1: whenever getNonOverlappingSegments succeeds for N >= 1 segments, the
\* groups it returns hold every segment number 1..N exactly once and nothing
\* else, and no group holds two segments whose cell of the overlap matrix is 1.
C1_GroupsPartitionSegments ==
    (Succeeded("getNonOverlappingSegments") /\ m_seg.numberOfSegments >= 1) =>
        LET groups == last.result
        IN  /\ last.written
            /\ \A s \in 1 .. m_seg.numberOfSegments : Cardinality(PlacesOf(groups, s)) = 1
            /\ \A g \in DOMAIN groups : \A k \in DOMAIN groups[g] :
                  groups[g][k] \in 1 .. m_seg.numberOfSegments
            /\ \A g \in DOMAIN groups : \A k1, k2 \in DOMAIN groups[g] :
                  k1 # k2 => m_segmentOverlapMatrix[groups[g][k1]][groups[g][k2]] # 1

\* getNonOverlappingSegments succeeded with overlapping segments in different
\* groups and two segments sharing a group
C1_Witness ==
    /\ Succeeded("getNonOverlappingSegments")
    /\ Len(last.result) >= 2
    /\ \E g \in DOMAIN last.result : Len(last.result[g]) >= 2
    /\ \E i, j \in 1 .. m_seg.numberOfSegments : m_segmentOverlapMatrix[i][j] = 1

\* C2: after a successful getOverlapMatrix the cached matrix is N x N,
\* symmetric and 0 on its diagonal, also when one segment has two frames at
\* one logical position whose masks share set pixels.
C2_MatrixSymmetricZeroDiagonal ==
    Succeeded("getOverlapMatrix") =>
        LET N == m_seg.numberOfSegments
            M == m_segmentOverlapMatrix
        IN  /\ last.result = M
            /\ Len(M) = N
            /\ \A i \in 1 .. N : Len(M[i]) = N /\ M[i][i] = 0
            /\ \A i, j \in 1 .. N : M[i][j] = M[j][i]

\* the bytes at some index of the two masks have a common set bit
ShareSetPixel(d1, d2) ==
    \E n \in DOMAIN d1 \cap DOMAIN d2 : \E k \in 0 .. BitsPerByte - 1 :
        Bit(d1[n], k) = 1 /\ Bit(d2[n], k) = 1

\* getOverlapMatrix succeeded where a segment has two distinct frames at one
\* logical position whose masks share set pixels, next to another segment
C2_Witness ==
    /\ Succeeded("getOverlapMatrix")
    /\ BytePacked(m_seg.rows, m_seg.cols)
    /\ \E l \in DOMAIN m_segmentsByPosition : \E a, b, c \in m_segmentsByPosition[l] :
          /\ a.m_segmentNumber = b.m_segmentNumber
          /\ a.m_frameNumber # b.m_frameNumber
          /\ c.m_segmentNumber # a.m_segmentNumber
          /\ ShareSetPixel(m_seg.frames[a.m_frameNumber + 1].pixData,
                           m_seg.frames[b.m_frameNumber + 1].pixData)

\* segments i and j both stand in the segment set of some logical position
TogetherAtSomePosition(i, j) ==
    \E l \in DOMAIN m_segmentsByPosition : \E a, b \in m_segmentsByPosition[l] :
        a.m_segmentNumber = i /\ b.m_segmentNumber = j

\* C3: after a successful getOverlapMatrix no cell is -1 (Unknown), and the
\* cell of two segments that never stand together in the segment set of a
\* logical position is 0 (NoOverlap).
C3_NoUnknownCells ==
    Succeeded("getOverlapMatrix") =>
        \A i, j \in 1 .. m_seg.numberOfSegments :
            /\ m_segmentOverlapMatrix[i][j] \in { 0, 1 }
            /\ ~TogetherAtSomePosition(i, j) => m_segmentOverlapMatrix[i][j] = 0

\* getOverlapMatrix succeeded for two segments that have frames, with masks
\* sharing pixels, but at different logical positions only
C3_Witness ==
    /\ Succeeded("getOverlapMatrix")
    /\ \E i, j \in 1 .. m_seg.numberOfSegments :
          /\ i # j
          /\ ~TogetherAtSomePosition(i, j)
          /\ \E l1, l2 \in DOMAIN m_segmentsByPosition :
                \E a \in m_segmentsByPosition[l1], b \in m_segmentsByPosition[l2] :
                    /\ a.m_segmentNumber = i /\ b.m_segmentNumber = j
                    /\ ShareSetPixel(m_seg.frames[a.m_frameNumber + 1].pixData,
                                     m_seg.frames[b.m_frameNumber + 1].pixData)

\* every frame has pixel data and all of one length
EqualLengthMasks ==
    \A f, g \in DOMAIN m_seg.frames :
        /\ m_seg.frames[f].present
        /\ FrameLength(m_seg.frames[f]) = FrameLength(m_seg.frames[g])

\* some logical position holds a frame of segment i and another frame, of
\* segment j, whose masks have a common set bit in some byte
OverlappingFramesAtSomePosition(i, j) ==
    \E l \in DOMAIN m_segmentsByPosition : \E a, b \in m_segmentsByPosition[l] :
        /\ a.m_segmentNumber = i /\ b.m_segmentNumber = j
        /\ a.m_frameNumber # b.m_frameNumber
        /\ ShareSetPixel(m_seg.frames[a.m_frameNumber + 1].pixData,
                         m_seg.frames[b.m_frameNumber + 1].pixData)

\* C4: for byte-packed masks (rows * cols mod 8 = 0) of equal length, after a
\* successful getOverlapMatrix the cell of distinct segments i, j is 1 exactly
\* when some logical position holds a frame of i and a frame of j whose masks
\* have a nonzero bitwise AND in some byte, and 0 otherwise; masks 0b1100 and
\* 0b0011 at one position give no overlap, 0b1100 and 0b1000 give [[0,1],[1,0]].
C4_OverlapIffSharedPixel ==
    (Succeeded("getOverlapMatrix") /\ BytePacked(m_seg.rows, m_seg.cols)
        /\ EqualLengthMasks) =>
        /\ \A i, j \in 1 .. m_seg.numberOfSegments :
              i # j => m_segmentOverlapMatrix[i][j] =
                          IF OverlappingFramesAtSomePosition(i, j) THEN 1 ELSE 0
        /\ m_seg = TwoSegments(12, 3) => last.result = << << 0, 0 >>, << 0, 0 >> >>
        /\ m_seg = TwoSegments(12, 8) => last.result = << << 0, 1 >>, << 1, 0 >> >>

\* getOverlapMatrix succeeded on the frames with masks 0b1100 and 0b1000
C4_Witness ==
    /\ Succeeded("getOverlapMatrix")
    /\ m_seg = TwoSegments(12, 8)
    /\ m_segmentsByPosition = << { SegNumAndFrameNum(1, 0), SegNumAndFrameNum(2, 1) } >>

\* C5: after a successful getFramesByPosition on at least one frame, every
\* logical position is non-empty and every frame number 0 .. numFrames - 1
\* stands in exactly one logical position, exactly once.
C5_LogicalPositionsPartitionFrames ==
    (Succeeded("getFramesByPosition") /\ m_seg.numberOfFrames >= 1) =>
        LET positions == last.result
        IN  /\ last.written
            /\ positions = m_logicalFramePositions
            /\ \A l \in DOMAIN positions : positions[l] # << >>
            /\ \A l \in DOMAIN positions : \A k \in DOMAIN positions[l] :
                  positions[l][k] \in 0 .. m_seg.numberOfFrames - 1
            /\ \A f \in 0 .. m_seg.numberOfFrames - 1 :
                  Cardinality(PlacesOf(positions, f)) = 1

\* getFramesByPosition succeeded with several logical positions, one of them
\* holding several frames
C5_Witness ==
    /\ Succeeded("getFramesByPosition")
    /\ Len(last.result) >= 2
    /\ \E l \in DOMAIN last.result : Len(last.result[l]) >= 2

\* the logical position (index into positions) that holds frame f
PositionOf(positions, f) ==
    CHOOSE l \in DOMAIN positions : \E k \in DOMAIN positions[l] : positions[l][k] = f

\* C6 (as stated): frames 0..3 at 0, 1, 500 and 501 with tolerance 1 (slice
\* thickness 100) are grouped into the two logical positions {0,1} and {2,3}:
\* a distance equal to the tolerance keeps a frame with the previous one.
C6_AsClaimed ==
    (Succeeded("getFramesByPosition") /\ m_seg = FourFrames(100)) =>
        last.result = << << 0, 1 >>, << 2, 3 >> >>

\* C6 (amended): a frame whose distance to the previous frame in sort order
\* equals the tolerance starts a new logical position; only a strictly smaller
\* distance keeps it with the previous frame.  Frames 0..3 at 0, 1, 500 and 501
\* give {0},{1},{2},{3} with tolerance 1 and {0,1},{2,3} with tolerance 2.
C6_EqualToToleranceStartsNewPosition ==
    Succeeded("getFramesByPosition") =>
        LET positions == last.result
            sorted == m_framePositions
            c == IdentifyChangingCoordinate(m_imageOrientation)
            distance(j) == Abs(sorted[j].m_position[c + 1] - sorted[j - 1].m_position[c + 1])
            together(j) == PositionOf(positions, sorted[j].m_frameNumber)
                            = PositionOf(positions, sorted[j - 1].m_frameNumber)
        IN  /\ m_seg = FourFrames(100) =>
                 positions = << << 0 >>, << 1 >>, << 2 >>, << 3 >> >>
            /\ m_seg = FourFrames(200) => positions = << << 0, 1 >>, << 2, 3 >> >>
            /\ \A j \in 2 .. Len(sorted) :
                  /\ distance(j) * ToleranceDivisor = m_seg.pixelMeasures.sliceThickness
                        => ~together(j)
                  /\ distance(j) * ToleranceDivisor < m_seg.pixelMeasures.sliceThickness
                        => together(j)

\* getFramesByPosition succeeded on the four frames with tolerance 1
C6_Witness ==
    /\ Succeeded("getFramesByPosition")
    /\ m_seg = FourFrames(100)
    /\ Len(m_framePositions) = 4

\* C7 (as stated): a getter called twice in a row, without clear() or
\* setSegmentationObject() in between, returns the same condition and the same
\* output both times, and the second call does no frame-position collection,
\* segment lookup or frame comparison.
C7_RepeatedGetterSameResult ==
    [][(last'.op = last.op /\ last.op \in Getters /\ m_seg' = m_seg) =>
          /\ last'.cond = last.cond
          /\ last'.written = last.written
          /\ last'.result = last.result
          /\ last'.work = {}]_vars

\* some frame references segment 0, or its reference cannot be read, or it
\* references a segment number above the number of segments
HasInvalidSegmentReference ==
    \E f \in DOMAIN m_seg.segmentation :
        LET segFG == m_seg.segmentation[f]
        IN  /\ segFG.found
            /\ \/ ~segFG.good
               \/ segFG.segNum = 0
               \/ segFG.segNum > m_seg.numberOfSegments

\* C8: if a frame's referenced segment number is 0, unreadable or above the
\* number of segments, the first call of getSegmentsByPosition, getOverlapMatrix
\* or getNonOverlappingSegments since construction or clear() returns an error
\* and writes nothing to the caller's output; no matrix and no groups are made.
C8_InvalidReferenceFailsFirstCall ==
    (HasInvalidSegmentReference /\ last.op \in SegmentGetters /\ segmentCalls = 1) =>
        /\ Bad(last.cond)
        /\ ~last.written
        /\ m_segmentOverlapMatrix = << >>
        /\ m_nonOverlappingSegments = << >>

\* the first call, of getNonOverlappingSegments, failed on an invalid reference
\* after the pair of a valid frame had been inserted
C8_Witness ==
    /\ HasInvalidSegmentReference
    /\ last.op = "getNonOverlappingSegments"
    /\ segmentCalls = 1
    /\ last.cond = EC_InvalidValue
    /\ \E l \in DOMAIN m_segmentsByPosition : m_segmentsByPosition[l] # {}

\* C9 (as stated): with an invalid segment reference in the input, no call of
\* getSegmentsByPosition, getOverlapMatrix or getNonOverlappingSegments, the
\* first or a later one, returns success: the partial segments-by-position
\* cache of a failed call is discarded and a later call fails again.
C9_FailedLookupIsNotReused ==
    (HasInvalidSegmentReference /\ last.op \in SegmentGetters) => Bad(last.cond)

\* C10 (as stated): getOverlapMatrix does not succeed when a comparison made
\* while the matrix was built could not be carried out (pixel data of a frame
\* not accessible, or masks of different length).
C10_IncomparableFramesFail ==
    Succeeded("getOverlapMatrix") =>
        LET log == BuildOverlapMatrix(m_segmentsByPosition).log
        IN  \A k \in DOMAIN log : Good(log[k].cond)

\* the plane-orientation group of frame 0 is present and flagged per-frame
OrientationIsPerFrame ==
    m_seg.planeOrientation.found /\ m_seg.planeOrientation.perFrame

\* C11: when the plane-orientation group of frame 0 is per-frame, every getter
\* (getFramesByPosition, getSegmentsByPosition, getOverlapMatrix,
\* getNonOverlappingSegments) fails with SG_EC_FramesNotParallel and writes no
\* output, and the frame positions, logical positions, segments by position,
\* overlap matrix and groups stay empty.
C11_PerFrameOrientationFailsEverywhere ==
    OrientationIsPerFrame =>
        /\ m_framePositions = << >>
        /\ m_logicalFramePositions = << >>
        /\ m_segmentsByPosition = << >>
        /\ m_segmentOverlapMatrix = << >>
        /\ m_nonOverlappingSegments = << >>
        /\ last.op \in Getters =>
              last.cond = SG_EC_FramesNotParallel /\ ~last.written

\* a segment getter was called twice or more on a per-frame orientation with
\* frames that all have positions, and getNonOverlappingSegments was the last
C11_Witness ==
    /\ OrientationIsPerFrame
    /\ \A k \in DOMAIN m_seg.planePosition : m_seg.planePosition[k].found
    /\ segmentCalls = 2
    /\ last.op = "getNonOverlappingSegments"
    /\ last.cond = SG_EC_FramesNotParallel

\* the operations that reset the object
Resets == { "clear", "setSegmentationObject" }

\* the numbers held by a vector of vectors
MembersOf(vectors) == UNION { { vectors[g][k] : k \in DOMAIN vectors[g] } : g \in DOMAIN vectors }

\* the call l was computed from the segmentation object seg and not taken from
\* a cache: a successful call collected the frame positions again, and an
\* output it wrote has the frames and segments of seg
FreshFromSource(l, seg) ==
    /\ Good(l.cond) => "collect" \in l.work
    /\ (l.op = "getFramesByPosition" /\ l.written) =>
            MembersOf(l.result) = 0 .. seg.numberOfFrames - 1
    /\ (l.op = "getSegmentsByPosition" /\ l.written) =>
            \A i \in DOMAIN l.result : \A e \in l.result[i] :
                /\ e.m_frameNumber \in 0 .. seg.numberOfFrames - 1
                /\ e.m_segmentNumber \in 1 .. seg.numberOfSegments
    /\ (l.op = "getOverlapMatrix" /\ l.written) =>
            Len(l.result) = seg.numberOfSegments
    /\ (l.op = "getNonOverlappingSegments" /\ l.written) =>
            MembersOf(l.result) = 1 .. seg.numberOfSegments

\* C12: after clear() and after setSegmentationObject() every memoized
\* structure is empty; clear() leaves the segmentation reference as it was; the
\* getter called next computes its result from the current segmentation object
\* (it does the work again and its output fits that object).
C12_ResetForcesRecomputation ==
    [][/\ last'.op \in Resets =>
            /\ m_imageOrientation' = << >>
            /\ m_framePositions' = << >>
            /\ m_framesForSegment' = << >>
            /\ m_logicalFramePositions' = << >>
            /\ m_segmentsByPosition' = << >>
            /\ m_segmentOverlapMatrix' = << >>
            /\ m_nonOverlappingSegments' = << >>
       /\ last'.op = "clear" => m_seg' = m_seg
       /\ (last.op \in Resets /\ last'.op \in Getters) =>
            FreshFromSource(last', m_seg')]_vars

\* clear() has just been called on an object of two segments whose frames
\* overlap, and nothing is cached
C12_Witness ==
    /\ last.op = "clear"
    /\ m_seg = TwoSegments(12, 8)
    /\ m_imageOrientation = << >>
    /\ m_framePositions = << >>
    /\ m_framesForSegment = << >>
    /\ m_logicalFramePositions = << >>
    /\ m_segmentsByPosition = << >>
    /\ m_segmentOverlapMatrix = << >>
    /\ m_nonOverlappingSegments = << >>

\* group g holds a segment numbered below s that overlaps s: what a scan of
\* the groups for s finds in g, the segments being placed in ascending order
BlockedIn(matrix, groups, g, s) ==
    \E k \in DOMAIN groups[g] : groups[g][k] < s /\ matrix[s][groups[g][k]] = 1

\* C13: getNonOverlappingSegments is first-fit: every segment stands in the
\* earliest-created group that holds no earlier segment overlapping it, so
\* every group created before the group of s holds a segment overlapping s
\* (with overlaps 1-2 and 1-3 but not 2-3 the groups are {1}, {2,3}).
C13_GroupsAreFirstFit ==
    Succeeded("getNonOverlappingSegments") =>
        LET groups == last.result
            matrix == m_segmentOverlapMatrix
        IN  \A g \in DOMAIN groups : \A k \in DOMAIN groups[g] :
                LET s == groups[g][k]
                IN  /\ ~BlockedIn(matrix, groups, g, s)
                    /\ \A earlier \in 1 .. g - 1 : BlockedIn(matrix, groups, earlier, s)

SegmentPair(entry) == { entry.it.m_segmentNumber, entry.it2.m_segmentNumber }

\* the pairs of frames, one of segment i and one of segment j, that stand
\* together at a logical position
FramePairsOf(i, j) ==
    UNION { { << e1.m_frameNumber, e2.m_frameNumber >> :
                e1 \in { e \in m_segmentsByPosition[p] : e.m_segmentNumber = i },
                e2 \in { e \in m_segmentsByPosition[p] : e.m_segmentNumber = j } }
            : p \in DOMAIN m_segmentsByPosition }

\* C15: in the build of the overlap matrix a comparison that found an overlap
\* of segments i and j is the last comparison of frames of i and j, and the
\* cells (i,j) and (j,i) are 1 in the matrix that was built.
C15_OverlapIsFinal ==
    m_segmentOverlapMatrix # << >> =>
        LET log == BuildOverlapMatrix(m_segmentsByPosition).log
        IN  \A k \in DOMAIN log :
                log[k].overlap =>
                    /\ \A later \in k + 1 .. Len(log) :
                          SegmentPair(log[later]) # SegmentPair(log[k])
                    /\ \A i, j \in SegmentPair(log[k]) :
                          i # j => m_segmentOverlapMatrix[i][j] = 1

\* a matrix was built in which an overlap of two segments was found although
\* a later pair of their frames does not overlap
C15_Witness ==
    /\ m_segmentOverlapMatrix # << >>
    /\ EqualLengthMasks
    /\ \E i, j \in 1 .. m_seg.numberOfSegments :
          /\ i < j
          /\ m_segmentOverlapMatrix[i][j] = 1
          /\ LET log == BuildOverlapMatrix(m_segmentsByPosition).log
                 found == { k \in DOMAIN log : SegmentPair(log[k]) = { i, j }
                                                /\ log[k].overlap }
             IN  \E k \in found : \E pair \in FramePairsOf(i, j) :
                    /\ pair # << log[k].it.m_frameNumber, log[k].it2.m_frameNumber >>
                    /\ pair # << log[k].it2.m_frameNumber, log[k].it.m_frameNumber >>
                    /\ ~ShareSetPixel(m_seg.frames[pair[1] + 1].pixData,
                                      m_seg.frames[pair[2] + 1].pixData)

\* C16: whenever getSegmentsByPosition succeeds, the segment set of every
\* logical position holds exactly one pair for each frame of that position
\* and for no other frame, so that no frame is left out.
C16_EveryFrameHasOnePair ==
    Succeeded("getSegmentsByPosition") =>
        /\ Len(m_segmentsByPosition) = Len(m_logicalFramePositions)
        /\ \A l \in DOMAIN m_segmentsByPosition :
              /\ { e.m_frameNumber : e \in m_segmentsByPosition[l] }
                    = { m_logicalFramePositions[l][f] :
                          f \in DOMAIN m_logicalFramePositions[l] }
              /\ Cardinality(m_segmentsByPosition[l]) = Len(m_logicalFramePositions[l])

\* the frames that reference segment s
FramesReferencing(s) ==
    { f \in 0 .. m_seg.numberOfFrames - 1 :
        LET segFG == m_seg.segmentation[f + 1]
        IN  segFG.found /\ segFG.good /\ segFG.segNum = s }

\* C17: getFramesForSegment returns an error for every segment number outside
\* 1..N, never indexes the per-segment frame table outside 0..N-1 (neither
\* with the requested number nor with a number a frame references), and when
\* it succeeds, also after an earlier call failed, the list it returns holds
\* all frames of the segment and is not a partially filled one.
C17_FramesForSegmentStaysInRange ==
    last.op = "getFramesForSegment" =>
        /\ last.result.segmentNumber \notin 1 .. m_seg.numberOfSegments =>
              Bad(last.cond)
        /\ "outOfRange" \notin last.work
        /\ Good(last.cond) =>
              /\ { last.result.frames[k] : k \in DOMAIN last.result.frames }
                    = FramesReferencing(last.result.segmentNumber)
              /\ Len(last.result.frames)
                    = Cardinality(FramesReferencing(last.result.segmentNumber))
====
